---- MODULE Spec2Model ----
(***************************************************************************)
(* Model of app.py: the .docx -> JSON extractor.                           *)
(*                                                                         *)
(*   get_font_properties   (app.py 7-32)                                   *)
(*   get_paragraph_format  (app.py 34-51)                                  *)
(*   extract_docx_content  (app.py 53-173)                                 *)
(*   process_docx_files    (app.py 175-199)                                *)
(*                                                                         *)
(* Python values are tagged records, text is a sequence of one-character   *)
(* strings, and the objects of the document-model library are records of   *)
(* the attributes the program reads.                                       *)
(***************************************************************************)
EXTENDS Integers, Sequences, FiniteSets, TLC

(***************************************************************************)
(* Python values                                                           *)
(***************************************************************************)
None == [t |-> "None"]
PyBool(b) == [t |-> "bool", b |-> b]
PyInt(i) == [t |-> "int", i |-> i]
PyStr(s) == [t |-> "str", s |-> s]
\* a member of an int-based enumeration of the document library
PyEnum(n, v) == [t |-> "enum", name |-> n, value |-> v]
\* docx.shared.RGBColor, a 3-tuple of ints
PyRGB(r, g, b) == [t |-> "rgb", rgb |-> <<r, g, b>>]
\* the attribute does not exist: hasattr is False, getattr gives its default
Absent == [t |-> "absent"]
\* reading the attribute raises an exception that is not AttributeError
Throws == [t |-> "throws"]
\* a ColorFormat object whose .rgb reads as v
ColorObj(v) == [t |-> "color", rgb |-> v]
\* a style object (paragraph or table style) with its name
Style(n) == [t |-> "obj", name |-> n]
\* a header object with its paragraphs
Header(ps) == [t |-> "obj", paragraphs |-> ps]

\* bool(v), as the conditional expressions of the program evaluate it
Truthy(v) ==
    CASE v.t = "None" -> FALSE
      [] v.t = "bool" -> v.b
      [] v.t = "int" -> v.i # 0
      [] v.t = "str" -> v.s # <<>>
      [] v.t = "enum" -> v.value # 0
      [] v.t = "rgb" -> TRUE
      [] v.t = "color" -> TRUE
      [] v.t = "obj" -> TRUE
      [] OTHER -> FALSE

hasattr(v) == v # Absent

getattr(v, default) == IF v = Absent THEN default ELSE v

(***************************************************************************)
(* Text                                                                    *)
(***************************************************************************)
IsSpace(c) == c \in {" ", "\n", "\t"}

RECURSIVE LStrip(_)
LStrip(s) ==
    IF s = <<>> THEN <<>>
    ELSE IF IsSpace(Head(s)) THEN LStrip(Tail(s))
    ELSE s

RECURSIVE RStrip(_)
RStrip(s) ==
    IF s = <<>> THEN <<>>
    ELSE IF IsSpace(s[Len(s)]) THEN RStrip(SubSeq(s, 1, Len(s) - 1))
    ELSE s

\* str.strip()
strip(s) == RStrip(LStrip(s))

DecDigits == <<"0", "1", "2", "3", "4", "5", "6", "7", "8", "9">>
HexLower == DecDigits \o <<"a", "b", "c", "d", "e", "f">>
HexUpper == DecDigits \o <<"A", "B", "C", "D", "E", "F">>

\* the digits of n >= 0 in the given base, most significant first
RECURSIVE Digits(_, _, _)
Digits(n, base, alphabet) ==
    IF n < base THEN <<alphabet[n + 1]>>
    ELSE Digits(n \div base, base, alphabet) \o <<alphabet[(n % base) + 1]>>

\* str(int)
StrInt(i) == IF i < 0 THEN <<"-">> \o Digits(0 - i, 10, DecDigits)
             ELSE Digits(i, 10, DecDigits)

RECURSIVE ZeroPad(_, _)
ZeroPad(s, width) == IF Len(s) >= width THEN s ELSE ZeroPad(<<"0">> \o s, width)

\* f"#{rgb:06x}" for a non-negative int
FormatHex06(i) == <<"#">> \o ZeroPad(Digits(i, 16, HexLower), 6)

\* RGBColor.__str__: '%02X%02X%02X'
StrRGB(c) == ZeroPad(Digits(c[1], 16, HexUpper), 2)
             \o ZeroPad(Digits(c[2], 16, HexUpper), 2)
             \o ZeroPad(Digits(c[3], 16, HexUpper), 2)

\* str(v)
str(v) ==
    CASE v.t = "None" -> <<"N", "o", "n", "e">>
      [] v.t = "bool" -> IF v.b THEN <<"T", "r", "u", "e">>
                         ELSE <<"F", "a", "l", "s", "e">>
      [] v.t = "int" -> StrInt(v.i)
      [] v.t = "str" -> v.s
      [] v.t = "enum" -> v.name \o <<" ", "(">> \o StrInt(v.value) \o <<")">>
      [] v.t = "rgb" -> StrRGB(v.rgb)
      [] OTHER -> <<"?">>

(***************************************************************************)
(* get_font_properties (app.py 7-32)                                       *)
(*                                                                         *)
(* A run is [text, bold, italic, underline, font], a font is [size, name,  *)
(* all_caps, color, highlight_color, subscript, superscript].              *)
(***************************************************************************)
\* lines 11-22: the dictionary literal
FontPropertiesLiteral(run) ==
    [bold |-> getattr(run.bold, None),
     italic |-> getattr(run.italic, None),
     underline |-> getattr(run.underline, None),
     font_size |-> IF hasattr(run.font.size) /\ Truthy(run.font.size)
                   THEN PyStr(str(run.font.size)) ELSE None,
     font_name |-> getattr(run.font.name, None),
     all_caps |-> getattr(run.font.all_caps, None),
     color |-> None,
     highlight_color |-> IF hasattr(run.font.highlight_color)
                         THEN PyStr(str(run.font.highlight_color)) ELSE None,
     subscript |-> getattr(run.font.subscript, None),
     superscript |-> getattr(run.font.superscript, None)]

\* lines 26-28, the body of the try: exc says that it raised, assigned that
\* properties["color"] was assigned, color the value assigned
ColorResolution(font) ==
    IF ~hasattr(font.color) THEN [exc |-> FALSE, assigned |-> FALSE, color |-> None]
    ELSE IF font.color = Throws THEN [exc |-> TRUE, assigned |-> FALSE, color |-> None]
    ELSE IF ~Truthy(font.color) THEN [exc |-> FALSE, assigned |-> FALSE, color |-> None]
    ELSE IF font.color.rgb = Throws THEN [exc |-> TRUE, assigned |-> FALSE, color |-> None]
    ELSE IF ~Truthy(font.color.rgb) THEN [exc |-> FALSE, assigned |-> FALSE, color |-> None]
    ELSE [exc |-> FALSE, assigned |-> TRUE,
          color |-> IF font.color.rgb.t = "int"
                    THEN PyStr(FormatHex06(font.color.rgb.i))
                    ELSE PyStr(str(font.color.rgb))]

\* the try statement without its except clause: the exception leaves the function
FontPropertiesCall_uncaught(run) ==
    LET r == ColorResolution(run.font)
        properties == FontPropertiesLiteral(run)
    IN  [raised |-> r.exc,
         value |-> IF r.assigned THEN [properties EXCEPT !.color = r.color]
                   ELSE properties]

\* lines 11-32: the call, as [raised, value]; `except Exception: pass` swallows
\* whatever the color resolution raised
FontPropertiesCall(run) ==
    LET r == ColorResolution(run.font)
        properties == FontPropertiesLiteral(run)
    IN  [raised |-> FALSE,
         value |-> IF r.assigned THEN [properties EXCEPT !.color = r.color]
                   ELSE properties]

get_font_properties(run) == FontPropertiesCall(run).value

(***************************************************************************)
(* get_paragraph_format (app.py 34-51)                                     *)
(***************************************************************************)
\* lines 40-46: `str(x) if x else None`
StrIfTruthy(x) == IF Truthy(x) THEN PyStr(str(x)) ELSE None

get_paragraph_format(paragraph) ==
    LET fmt == paragraph.paragraph_format
    IN  [alignment |-> StrIfTruthy(fmt.alignment),
         first_line_indent |-> StrIfTruthy(fmt.first_line_indent),
         left_indent |-> StrIfTruthy(fmt.left_indent),
         right_indent |-> StrIfTruthy(fmt.right_indent),
         line_spacing |-> StrIfTruthy(fmt.line_spacing),
         space_before |-> StrIfTruthy(fmt.space_before),
         space_after |-> StrIfTruthy(fmt.space_after),
         keep_together |-> fmt.keep_together,
         keep_with_next |-> fmt.keep_with_next,
         page_break_before |-> fmt.page_break_before,
         widow_control |-> fmt.widow_control]

(***************************************************************************)
(* extract_docx_content (app.py 53-173): the records it builds             *)
(*                                                                         *)
(* A paragraph of the document model is [runs, style, paragraph_format,    *)
(* numbering, ilvl]; a section is [header], a header None or [paragraphs]; *)
(* a table is [style, rows], a row [cells], a cell [paragraphs]; the       *)
(* document is [sections, paragraphs, tables].                             *)
(***************************************************************************)
RECURSIVE Concat(_)
Concat(ss) == IF ss = <<>> THEN <<>> ELSE Head(ss) \o Concat(Tail(ss))

\* Paragraph.text: the text of the runs, concatenated
ParagraphText(paragraph) ==
    Concat([k \in 1..Len(paragraph.runs) |-> paragraph.runs[k].text])

RECURSIVE JoinLines(_)
JoinLines(ss) ==
    IF ss = <<>> THEN <<>>
    ELSE IF Len(ss) = 1 THEN ss[1]
    ELSE ss[1] \o <<"\n">> \o JoinLines(Tail(ss))

\* _Cell.text: the text of the cell's paragraphs, joined by newlines
CellText(cell) ==
    JoinLines([k \in 1..Len(cell.paragraphs) |-> ParagraphText(cell.paragraphs[k])])

\* str.startswith
startswith(s, prefix) ==
    Len(s) >= Len(prefix) /\ SubSeq(s, 1, Len(prefix)) = prefix

\* the loop over the runs without the test of run.text.strip()
RECURSIVE RunsLoop_nofilter(_, _)
RunsLoop_nofilter(runs, acc) ==
    IF runs = <<>> THEN acc
    ELSE RunsLoop_nofilter(Tail(runs),
                           Append(acc, [text |-> Head(runs).text,
                                        font_properties |-> get_font_properties(Head(runs))]))

\* lines 85-90, 110-115, 158-163: the loop over the runs of a paragraph,
\* acc being the "runs" list so far
RECURSIVE RunsLoop(_, _)
RunsLoop(runs, acc) ==
    IF runs = <<>> THEN acc
    ELSE LET run == Head(runs)
         IN  IF strip(run.text) # <<>>
             THEN RunsLoop(Tail(runs),
                           Append(acc, [text |-> run.text,
                                        font_properties |-> get_font_properties(run)]))
             ELSE RunsLoop(Tail(runs), acc)

\* lines 78-90: the record of a header paragraph
header_content(paragraph) ==
    [text |-> strip(ParagraphText(paragraph)),
     style_name |-> paragraph.style.name,
     formatting |-> get_paragraph_format(paragraph),
     runs |-> RunsLoop(paragraph.runs, <<>>)]

\* the loop over the paragraphs of one header, inserting at the front
RECURSIVE HeaderParagraphsLoop_prepend(_, _)
HeaderParagraphsLoop_prepend(paragraphs, acc) ==
    IF paragraphs = <<>> THEN acc
    ELSE IF strip(ParagraphText(Head(paragraphs))) # <<>>
         THEN HeaderParagraphsLoop_prepend(Tail(paragraphs),
                                           <<header_content(Head(paragraphs))>> \o acc)
         ELSE HeaderParagraphsLoop_prepend(Tail(paragraphs), acc)

\* lines 76-92: the loop over the paragraphs of one header, acc being
\* content["headers"] so far
RECURSIVE HeaderParagraphsLoop(_, _)
HeaderParagraphsLoop(paragraphs, acc) ==
    IF paragraphs = <<>> THEN acc
    ELSE IF strip(ParagraphText(Head(paragraphs))) # <<>>
         THEN HeaderParagraphsLoop(Tail(paragraphs),
                                   Append(acc, header_content(Head(paragraphs))))
         ELSE HeaderParagraphsLoop(Tail(paragraphs), acc)

\* line 105
is_list_item(para) ==
    startswith(para.style.name, <<"L", "i", "s", "t">>) \/ hasattr(para.numbering)

\* line 106
list_level(para) ==
    IF hasattr(para.numbering) /\ hasattr(para.ilvl) THEN para.ilvl ELSE None

\* lines 100-115: the record of a body paragraph
para_content(para) ==
    [text |-> strip(ParagraphText(para)),
     style_name |-> para.style.name,
     formatting |-> get_paragraph_format(para),
     runs |-> RunsLoop(para.runs, <<>>),
     is_list_item |-> is_list_item(para),
     list_level |-> list_level(para)]

\* lines 151-163: the record of a cell paragraph
cell_para_content(para) ==
    [text |-> strip(ParagraphText(para)),
     style_name |-> para.style.name,
     formatting |-> get_paragraph_format(para),
     runs |-> RunsLoop(para.runs, <<>>)]

\* lines 149-165: the loop over the paragraphs of a cell
RECURSIVE CellParagraphsLoop(_, _)
CellParagraphsLoop(paragraphs, acc) ==
    IF paragraphs = <<>> THEN acc
    ELSE IF strip(ParagraphText(Head(paragraphs))) # <<>>
         THEN CellParagraphsLoop(Tail(paragraphs),
                                 Append(acc, cell_para_content(Head(paragraphs))))
         ELSE CellParagraphsLoop(Tail(paragraphs), acc)

\* lines 143-165
cell_content(cell) ==
    [text |-> strip(CellText(cell)),
     paragraphs |-> CellParagraphsLoop(cell.paragraphs, <<>>)]

\* lines 141-167: every cell of the row is appended
RECURSIVE CellsLoop(_, _)
CellsLoop(cells, acc) ==
    IF cells = <<>> THEN acc
    ELSE CellsLoop(Tail(cells), Append(acc, cell_content(Head(cells))))

\* lines 140-168: every row of the table is appended
RECURSIVE RowsLoop(_, _)
RowsLoop(rows, acc) ==
    IF rows = <<>> THEN acc
    ELSE RowsLoop(Tail(rows), Append(acc, CellsLoop(Head(rows).cells, <<>>)))

NormalStyle == <<"N", "o", "r", "m", "a", "l">>

\* lines 135-168
table_data(table) ==
    [style |-> IF Truthy(table.style) THEN table.style.name ELSE NormalStyle,
     rows |-> RowsLoop(table.rows, <<>>)]

\* the test of line 170 looking at the first row only
AnyCellText_firstrow(td) ==
    /\ td.rows # <<>>
    /\ \E c \in 1..Len(td.rows[1]) : td.rows[1][c].text # <<>>

\* line 170: any(any(cell["text"] for cell in row) for row in table_data["rows"])
AnyCellText(td) ==
    \E r \in 1..Len(td.rows) : \E c \in 1..Len(td.rows[r]) : td.rows[r][c].text # <<>>

(***************************************************************************)
(* State                                                                   *)
(***************************************************************************)
VARIABLES
    doc,            \* extract_docx_content: the parsed document (line 63)
    pc,             \* extract_docx_content: where the function is
    content,        \* extract_docx_content: the dictionary being built
    current_list,   \* line 95
    list_items,     \* line 96
    sec_i,          \* sections already visited by the loop of line 74
    para_i,         \* body paragraphs already visited by the loop of line 98
    table_i,        \* tables already visited by the loop of line 134
    fontRun,        \* get_font_properties: the run of the last call
    fontRet,        \* get_font_properties: how the last call ended
    fmtPar,         \* get_paragraph_format: the paragraph of the last call
    fmtRet,         \* get_paragraph_format: what the last call returned
    listing,        \* process_docx_files: what os.listdir('.') returned
    docx_files,     \* line 179
    file_i,         \* files already visited by the loop of line 185
    bpc,            \* process_docx_files: where the function is
    trace           \* process_docx_files: what it printed, called and wrote so far

extractVars == <<doc, pc, content, current_list, list_items, sec_i, para_i, table_i>>
fontVars == <<fontRun, fontRet>>
fmtVars == <<fmtPar, fmtRet>>
batchVars == <<listing, docx_files, file_i, bpc, trace>>

(***************************************************************************)
(* Documents the extractor is run on                                       *)
(***************************************************************************)
\* the largest number of sections, body paragraphs and tables, taken
\* together, of a document
MaxItems == 4

PlainFont ==
    [size |-> None, name |-> None, all_caps |-> None, color |-> ColorObj(None),
     highlight_color |-> None, subscript |-> None, superscript |-> None]

RedFont ==
    [size |-> PyInt(152400), name |-> PyStr(<<"A", "r", "i", "a", "l">>),
     all_caps |-> PyBool(FALSE), color |-> ColorObj(PyRGB(255, 0, 10)),
     highlight_color |-> PyEnum(<<"Y", "E", "L", "L", "O", "W">>, 7),
     subscript |-> None, superscript |-> PyBool(TRUE)]

RunA == [text |-> <<"a">>, bold |-> PyBool(TRUE), italic |-> None,
         underline |-> None, font |-> PlainFont]
RunSpace == [text |-> <<" ">>, bold |-> None, italic |-> None,
             underline |-> None, font |-> PlainFont]
RunB == [text |-> <<" ", "b">>, bold |-> None, italic |-> PyBool(TRUE),
         underline |-> None, font |-> RedFont]
RunC == [text |-> <<"c", " ">>, bold |-> Absent, italic |-> None,
         underline |-> PyBool(FALSE), font |-> [PlainFont EXCEPT !.color = Throws]]

PlainFormat ==
    [alignment |-> None, first_line_indent |-> None, left_indent |-> None,
     right_indent |-> None, line_spacing |-> None, space_before |-> None,
     space_after |-> None, keep_together |-> None, keep_with_next |-> None,
     page_break_before |-> None, widow_control |-> None]

IndentedFormat ==
    [PlainFormat EXCEPT !.alignment = PyEnum(<<"C", "E", "N", "T", "E", "R">>, 1),
                        !.left_indent = PyInt(457200),
                        !.space_before = PyInt(0),
                        !.keep_together = PyBool(TRUE)]

Paragraph(runs, styleName, fmt, numbering, ilvl) ==
    [runs |-> runs, style |-> Style(styleName), paragraph_format |-> fmt,
     numbering |-> numbering, ilvl |-> ilvl]

ListBullet == <<"L", "i", "s", "t", " ", "B", "u", "l", "l", "e", "t">>
LowerList == <<"l", "i", "s", "t">>

ParaText == Paragraph(<<RunA>>, NormalStyle, PlainFormat, Absent, Absent)
ParaBlank == Paragraph(<<RunSpace>>, NormalStyle, PlainFormat, Absent, Absent)
ParaList == Paragraph(<<RunB>>, ListBullet, IndentedFormat, Absent, PyInt(0))
ParaListBlank == Paragraph(<<>>, ListBullet, PlainFormat, Absent, Absent)
ParaMixed == Paragraph(<<RunSpace, RunC, RunB>>, NormalStyle, IndentedFormat, Absent, Absent)
ParaNumbered == Paragraph(<<RunB, RunA>>, LowerList, PlainFormat, None, PyInt(1))

BodyPool == {ParaText, ParaBlank, ParaList, ParaListBlank, ParaMixed, ParaNumbered}

Section(h) == [header |-> h]

SectionPool ==
    {Section(None), Section(Header(<<ParaMixed, ParaBlank, ParaText>>))}

Cell(ps) == [paragraphs |-> ps]
Row(cs) == [cells |-> cs]
Table(style, rows) == [style |-> style, rows |-> rows]

CellBlank == Cell(<<ParaBlank>>)
CellBlankLines == Cell(<<ParaBlank, ParaListBlank>>)
CellA == Cell(<<ParaText>>)
CellTwo == Cell(<<ParaBlank, ParaMixed, ParaText>>)

TableGrid == Style(<<"T", "a", "b", "l", "e", " ", "G", "r", "i", "d">>)

TablePool ==
    {Table(None, <<>>),
     Table(TableGrid, <<Row(<<CellBlank, CellBlankLines>>), Row(<<>>)>>),
     Table(None, <<Row(<<CellBlank>>), Row(<<CellTwo, CellA>>)>>),
     Table(TableGrid, <<Row(<<CellA, CellBlank>>), Row(<<CellBlankLines, CellTwo>>)>>)}

SeqsOfLen(S, n) == [1..n -> S]

Docs ==
    UNION {[sections : SeqsOfLen(SectionPool, n[1]),
            paragraphs : SeqsOfLen(BodyPool, n[2]),
            tables : SeqsOfLen(TablePool, n[3])] :
           n \in {m \in (0..MaxItems) \X (0..MaxItems) \X (0..MaxItems) :
                    m[1] + m[2] + m[3] <= MaxItems}}

DocxPath == <<"i", "n", "/", "a", ".", "d", "o", "c", "x">>

\* os.path.basename: what follows the last "/"
RECURSIVE basename(_)
basename(path) ==
    IF \E k \in 1..Len(path) : path[k] = "/"
    THEN basename(Tail(path))
    ELSE path

(***************************************************************************)
(* extract_docx_content (app.py 53-173): the steps                         *)
(***************************************************************************)
\* the value of a name that is not bound yet (a list-valued one starts as <<>>)
Unbound == [t |-> "unbound"]

\* lines 63-71
OpenDocument ==
    /\ pc = "idle"
    /\ \E d \in Docs : doc' = d
    /\ content' = [paragraphs |-> <<>>, tables |-> <<>>, headers |-> <<>>,
                   document_name |-> basename(DocxPath), lists |-> <<>>]
    /\ sec_i' = 0
    /\ pc' = "headers"
    /\ UNCHANGED <<current_list, list_items, para_i, table_i, fontVars, fmtVars, batchVars>>

\* lines 74-92: one iteration of the loop over the sections
HeaderSection ==
    /\ pc = "headers"
    /\ sec_i < Len(doc.sections)
    /\ LET section == doc.sections[sec_i + 1]
       IN  content' = IF Truthy(section.header)
                      THEN [content EXCEPT !.headers =
                               HeaderParagraphsLoop(section.header.paragraphs, @)]
                      ELSE content
    /\ sec_i' = sec_i + 1
    /\ UNCHANGED <<doc, pc, current_list, list_items, para_i, table_i, fontVars, fmtVars, batchVars>>

\* lines 95-96
InitListState ==
    /\ pc = "headers"
    /\ sec_i = Len(doc.sections)
    /\ current_list' = None
    /\ list_items' = <<>>
    /\ para_i' = 0
    /\ pc' = "body"
    /\ UNCHANGED <<doc, content, sec_i, table_i, fontVars, fmtVars, batchVars>>

\* lines 98-99: an iteration on a paragraph whose text is blank does nothing
BodySkipBlank ==
    /\ pc = "body"
    /\ para_i < Len(doc.paragraphs)
    /\ strip(ParagraphText(doc.paragraphs[para_i + 1])) = <<>>
    /\ para_i' = para_i + 1
    /\ UNCHANGED <<doc, pc, content, current_list, list_items, sec_i, table_i, fontVars, fmtVars, batchVars>>

\* lines 98-121: an iteration on a list item
BodyListItem ==
    /\ pc = "body"
    /\ para_i < Len(doc.paragraphs)
    /\ LET para == doc.paragraphs[para_i + 1]
           item == para_content(para)
       IN  /\ strip(ParagraphText(para)) # <<>>
           /\ item.is_list_item
           /\ current_list' = IF current_list = None
                              THEN [level |-> item.list_level, items |-> <<>>]
                              ELSE current_list
           /\ list_items' = Append(list_items, item)
    /\ para_i' = para_i + 1
    /\ UNCHANGED <<doc, pc, content, sec_i, table_i, fontVars, fmtVars, batchVars>>

\* the iteration on a paragraph that is no list item, leaving the group open
BodyParagraph_noclose ==
    /\ pc = "body"
    /\ para_i < Len(doc.paragraphs)
    /\ LET para == doc.paragraphs[para_i + 1]
           item == para_content(para)
       IN  /\ strip(ParagraphText(para)) # <<>>
           /\ ~item.is_list_item
           /\ content' = [content EXCEPT !.paragraphs = Append(@, item)]
           /\ UNCHANGED <<list_items, current_list>>
    /\ para_i' = para_i + 1
    /\ UNCHANGED <<doc, pc, sec_i, table_i, fontVars, fmtVars, batchVars>>

\* the iteration on a paragraph that is no list item, without line 126
BodyParagraph_noreset ==
    /\ pc = "body"
    /\ para_i < Len(doc.paragraphs)
    /\ LET para == doc.paragraphs[para_i + 1]
           item == para_content(para)
       IN  /\ strip(ParagraphText(para)) # <<>>
           /\ ~item.is_list_item
           /\ IF current_list # None
              THEN /\ content' = [content EXCEPT
                                    !.lists = Append(@, list_items),
                                    !.paragraphs = Append(@, item)]
                   /\ list_items' = <<>>
                   /\ UNCHANGED current_list
              ELSE /\ content' = [content EXCEPT !.paragraphs = Append(@, item)]
                   /\ UNCHANGED <<list_items, current_list>>
    /\ para_i' = para_i + 1
    /\ UNCHANGED <<doc, pc, sec_i, table_i, fontVars, fmtVars, batchVars>>

\* lines 98-116 and 122-127: an iteration on a paragraph that is no list item
BodyParagraph ==
    /\ pc = "body"
    /\ para_i < Len(doc.paragraphs)
    /\ LET para == doc.paragraphs[para_i + 1]
           item == para_content(para)
       IN  /\ strip(ParagraphText(para)) # <<>>
           /\ ~item.is_list_item
           /\ IF current_list # None
              THEN /\ content' = [content EXCEPT
                                    !.lists = Append(@, list_items),
                                    !.paragraphs = Append(@, item)]
                   /\ list_items' = <<>>
                   /\ current_list' = None
              ELSE /\ content' = [content EXCEPT !.paragraphs = Append(@, item)]
                   /\ UNCHANGED <<list_items, current_list>>
    /\ para_i' = para_i + 1
    /\ UNCHANGED <<doc, pc, sec_i, table_i, fontVars, fmtVars, batchVars>>

\* the end of the body loop without lines 130-131
FlushListItems_noflush ==
    /\ pc = "body"
    /\ para_i = Len(doc.paragraphs)
    /\ table_i' = 0
    /\ pc' = "tables"
    /\ UNCHANGED <<doc, content, current_list, list_items, sec_i, para_i, fontVars, fmtVars, batchVars>>

\* lines 130-131, after the last paragraph
FlushListItems ==
    /\ pc = "body"
    /\ para_i = Len(doc.paragraphs)
    /\ content' = IF list_items # <<>>
                  THEN [content EXCEPT !.lists = Append(@, list_items)]
                  ELSE content
    /\ table_i' = 0
    /\ pc' = "tables"
    /\ UNCHANGED <<doc, current_list, list_items, sec_i, para_i, fontVars, fmtVars, batchVars>>

\* lines 134-171: one iteration of the loop over the tables
ExtractTable ==
    /\ pc = "tables"
    /\ table_i < Len(doc.tables)
    /\ LET td == table_data(doc.tables[table_i + 1])
       IN  content' = IF AnyCellText(td)
                      THEN [content EXCEPT !.tables = Append(@, td)]
                      ELSE content
    /\ table_i' = table_i + 1
    /\ UNCHANGED <<doc, pc, current_list, list_items, sec_i, para_i, fontVars, fmtVars, batchVars>>

\* line 173
Return ==
    /\ pc = "tables"
    /\ table_i = Len(doc.tables)
    /\ pc' = "done"
    /\ UNCHANGED <<doc, content, current_list, list_items, sec_i, para_i, table_i, fontVars, fmtVars, batchVars>>

vars == <<extractVars, fontVars, fmtVars, batchVars>>

Init ==
    /\ doc = Unbound
    /\ pc = "idle"
    /\ content = Unbound
    /\ current_list = Unbound
    /\ list_items = <<>>
    /\ sec_i = 0
    /\ para_i = 0
    /\ table_i = 0
    /\ fontRun = Unbound
    /\ fontRet = Unbound
    /\ fmtPar = Unbound
    /\ fmtRet = Unbound
    /\ listing = <<>>
    /\ docx_files = <<>>
    /\ file_i = 0
    /\ bpc = "idle"
    /\ trace = <<>>

Next ==
    \/ OpenDocument
    \/ HeaderSection
    \/ InitListState
    \/ BodySkipBlank
    \/ BodyListItem
    \/ BodyParagraph
    \/ FlushListItems
    \/ ExtractTable
    \/ Return

Spec == Init /\ [][Next]_vars

(***************************************************************************)
(* get_font_properties on its own                                          *)
(***************************************************************************)
FontColors ==
    {Absent, Throws, None, ColorObj(None), ColorObj(Throws), ColorObj(PyInt(0)),
     ColorObj(PyInt(255)), ColorObj(PyRGB(0, 0, 0)), ColorObj(PyRGB(255, 0, 10))}

FontRuns ==
    [text : {<<"a">>},
     bold : {Absent, None, PyBool(TRUE)},
     italic : {None},
     underline : {None, PyBool(FALSE)},
     font : [size : {Absent, None, PyInt(0), PyInt(152400)},
             name : {Absent, None},
             all_caps : {None},
             color : FontColors,
             highlight_color : {Absent, None, PyEnum(<<"Y", "E", "L", "L", "O", "W">>, 7)},
             subscript : {None},
             superscript : {None}]]

\* lines 7-32: one call
GetFontProperties ==
    /\ fontRun = Unbound
    /\ \E run \in FontRuns :
          /\ fontRun' = run
          /\ fontRet' = FontPropertiesCall(run)
    /\ UNCHANGED <<extractVars, fmtVars, batchVars>>

NextFont == GetFontProperties

SpecFont == Init /\ [][NextFont]_vars

(***************************************************************************)
(* get_paragraph_format on its own                                         *)
(***************************************************************************)
Alignments == {None, PyEnum(<<"L", "E", "F", "T">>, 0),
               PyEnum(<<"C", "E", "N", "T", "E", "R">>, 1)}
Lengths == {None, PyInt(0), PyInt(457200)}
SignedLengths == Lengths \cup {PyInt(0 - 228600)}
Flags == {None, PyBool(TRUE), PyBool(FALSE)}

ParagraphFormats ==
    [alignment : Alignments,
     first_line_indent : SignedLengths,
     left_indent : Lengths,
     right_indent : Lengths,
     line_spacing : Lengths,
     space_before : Lengths,
     space_after : Lengths,
     keep_together : Flags,
     keep_with_next : {None},
     page_break_before : {None},
     widow_control : {None, PyBool(TRUE)}]

\* lines 34-51: one call
GetParagraphFormat ==
    /\ fmtPar = Unbound
    /\ \E fmt \in ParagraphFormats :
          /\ fmtPar' = Paragraph(<<RunA>>, NormalStyle, fmt, Absent, Absent)
          /\ fmtRet' = get_paragraph_format(fmtPar')
    /\ UNCHANGED <<extractVars, fontVars, batchVars>>

NextFmt == GetParagraphFormat

SpecFmt == Init /\ [][NextFmt]_vars

FontKeys == {"bold", "italic", "underline", "font_size", "font_name", "all_caps",
             "color", "highlight_color", "subscript", "superscript"}

\* the color object is absent, carries no RGB value, or throws when read
ColorUnresolved(font) ==
    \/ font.color \in {Absent, Throws, None}
    \/ font.color.rgb \in {None, Throws}

\* C5: get_font_properties never raises because of color resolution; it
\* returns a record with all ten keys, whose color is null whenever the color
\* object is absent, has no RGB value or throws on access, so that a non-null
\* color implies a color object carrying an RGB value.
C5_ColorNeverRaises ==
    fontRun # Unbound =>
        /\ ~fontRet.raised
        /\ DOMAIN fontRet.value = FontKeys
        /\ ColorUnresolved(fontRun.font) => fontRet.value.color = None
        /\ fontRet.value.color # None =>
              /\ fontRun.font.color.t = "color"
              /\ fontRun.font.color.rgb.t \in {"int", "rgb"}

C5_Witness ==
    /\ fontRun # Unbound
    /\ fontRun.font.color = ColorObj(Throws)
    /\ ~fontRet.raised
    /\ fontRet.value.color = None

NumericFields == {"alignment", "first_line_indent", "left_indent", "right_indent",
                  "line_spacing", "space_before", "space_after"}

\* C6: each of the seven numeric/enum fields of get_paragraph_format is null
\* if and only if the value is absent on the model, and every present value,
\* zero included, is rendered as its string form.
C6_NullIffAbsent ==
    fmtPar # Unbound =>
        \A f \in NumericFields :
            /\ fmtRet[f] = None <=> fmtPar.paragraph_format[f] = None
            /\ fmtPar.paragraph_format[f] # None =>
                  fmtRet[f] = PyStr(str(fmtPar.paragraph_format[f]))

(***************************************************************************)
(* The body pass, stated over the document                                 *)
(***************************************************************************)
NonBlank(paragraph) == strip(ParagraphText(paragraph)) # <<>>

\* the k-th smallest element of a set of numbers
Nth(S, k) == CHOOSE i \in S : Cardinality({j \in S : j < i}) = k - 1

Map_para_content(seq) == [k \in 1..Len(seq) |-> para_content(seq[k])]

\* the groups, as sequences of paragraphs, of a sequence ps of paragraphs:
\* one for each maximal run ps[i..j] of consecutive list items
RunStarts(ps) ==
    {i \in 1..Len(ps) : is_list_item(ps[i]) /\ (i = 1 \/ ~is_list_item(ps[i - 1]))}

RunEnd(ps, i) ==
    CHOOSE j \in i..Len(ps) :
        /\ \A m \in i..j : is_list_item(ps[m])
        /\ j = Len(ps) \/ ~is_list_item(ps[j + 1])

MaximalListRuns(ps) ==
    [k \in 1..Cardinality(RunStarts(ps)) |->
        LET i == Nth(RunStarts(ps), k) IN SubSeq(ps, i, RunEnd(ps, i))]

\* the body paragraphs the loop has visited
Visited == SubSeq(doc.paragraphs, 1, para_i)

InBody == pc = "body"
\* extract_docx_content has returned content
Returned == pc = "done"

\* C10: at every iteration boundary of the body loop current_list is None
\* exactly when list_items is empty; every group in content["lists"] is
\* non-empty; and the list items visited so far are, once each and in
\* order, the items of the groups emitted followed by the pending ones.
C10_ListStateInvariant ==
    /\ InBody =>
          /\ current_list = None <=> list_items = <<>>
          /\ Concat(content.lists) \o list_items =
                Map_para_content(SelectSeq(Visited,
                    LAMBDA p : NonBlank(p) /\ is_list_item(p)))
    /\ pc \in {"body", "tables", "done"} =>
          \A g \in 1..Len(content.lists) : content.lists[g] # <<>>

C10_Witness ==
    /\ InBody
    /\ para_i = Len(doc.paragraphs)
    /\ content.lists # <<>>
    /\ list_items # <<>>
    /\ current_list # None

\* C9: the body pass partitions the non-blank body paragraphs: the records
\* of those that are no list items are content["paragraphs"], the records of
\* the list items are the items of the groups of content["lists"], each once;
\* no list item is in content["paragraphs"] and no other record in a group.
C9_BodyPartition ==
    Returned =>
        /\ content.paragraphs =
              Map_para_content(SelectSeq(doc.paragraphs,
                  LAMBDA p : NonBlank(p) /\ ~is_list_item(p)))
        /\ Concat(content.lists) =
              Map_para_content(SelectSeq(doc.paragraphs,
                  LAMBDA p : NonBlank(p) /\ is_list_item(p)))
        /\ \A k \in 1..Len(content.paragraphs) : ~content.paragraphs[k].is_list_item
        /\ \A g \in 1..Len(content.lists) : \A k \in 1..Len(content.lists[g]) :
              content.lists[g][k].is_list_item

C9_Witness ==
    /\ pc = "done"
    /\ Len(content.paragraphs) >= 2
    /\ Len(content.lists) >= 1
    /\ \E k \in 1..Len(doc.paragraphs) : ~NonBlank(doc.paragraphs[k])

\* the groups of the original reading of C2: a blank list item leaves its run
\* without appearing in the output, a run without output is no group
GroupsOfAllParagraphs ==
    LET runs == MaximalListRuns(doc.paragraphs)
        recs == [k \in 1..Len(runs) |-> Map_para_content(SelectSeq(runs[k], NonBlank))]
    IN  SelectSeq(recs, LAMBDA g : g # <<>>)

\* C2 as stated: content["lists"] holds one group per maximal run of
\* consecutive list-item paragraphs of the body, any non-list paragraph
\* between two list paragraphs separating them.
C2_GroupPerMaximalRun ==
    Returned => content.lists = GroupsOfAllParagraphs

\* C2, amended: content["lists"] holds one group per maximal run of
\* consecutive list items in the sequence of the non-blank body paragraphs;
\* a non-blank non-list paragraph separates two groups, a blank paragraph,
\* list item or not, is skipped and separates nothing.
C2_GroupPerMaximalNonBlankRun ==
    Returned =>
        LET runs == MaximalListRuns(SelectSeq(doc.paragraphs, NonBlank))
        IN  content.lists = [k \in 1..Len(runs) |-> Map_para_content(runs[k])]

C2_Witness ==
    /\ pc = "done"
    /\ Len(content.lists) = 1
    /\ Len(content.lists[1]) >= 2
    /\ \E k \in 2..(Len(doc.paragraphs) - 1) :
          /\ ~NonBlank(doc.paragraphs[k]) /\ ~is_list_item(doc.paragraphs[k])
          /\ NonBlank(doc.paragraphs[k - 1]) /\ is_list_item(doc.paragraphs[k - 1])
          /\ NonBlank(doc.paragraphs[k + 1]) /\ is_list_item(doc.paragraphs[k + 1])

(***************************************************************************)
(* The whole output, stated over the document                              *)
(***************************************************************************)
\* every paragraph record of the output, body, list, header or cell
OutputParagraphRecords ==
    {content.headers[k] : k \in 1..Len(content.headers)}
    \cup {[text |-> content.paragraphs[k].text, style_name |-> content.paragraphs[k].style_name,
           formatting |-> content.paragraphs[k].formatting, runs |-> content.paragraphs[k].runs] :
          k \in 1..Len(content.paragraphs)}
    \cup UNION {{[text |-> content.lists[g][k].text, style_name |-> content.lists[g][k].style_name,
                  formatting |-> content.lists[g][k].formatting, runs |-> content.lists[g][k].runs] :
                 k \in 1..Len(content.lists[g])} : g \in 1..Len(content.lists)}
    \cup UNION {UNION {UNION {{content.tables[t].rows[r][c].paragraphs[k] :
                               k \in 1..Len(content.tables[t].rows[r][c].paragraphs)} :
                              c \in 1..Len(content.tables[t].rows[r])} :
                       r \in 1..Len(content.tables[t].rows)} :
                t \in 1..Len(content.tables)}

\* every cell record of the output
OutputCellRecords ==
    UNION {UNION {{content.tables[t].rows[r][c] : c \in 1..Len(content.tables[t].rows[r])} :
                  r \in 1..Len(content.tables[t].rows)} :
           t \in 1..Len(content.tables)}

NoBlankParagraphOrRun ==
    \A rec \in OutputParagraphRecords :
        /\ strip(rec.text) # <<>>
        /\ \A k \in 1..Len(rec.runs) : strip(rec.runs[k].text) # <<>>

\* C1 as stated: no paragraph record, run record, cell record or cell
\* paragraph record of the output has a text that is empty after trimming.
C1_NoBlankTextNode ==
    Returned =>
        /\ NoBlankParagraphOrRun
        /\ \A cell \in OutputCellRecords : strip(cell.text) # <<>>

\* C1, amended: no header, body, list or cell paragraph record and no run
\* record of the output has a text that is empty after trimming; a cell
\* record of a retained table is kept whatever its text, and every retained
\* table has at least one cell record whose text is not empty.
C1_NoBlankParagraphOrRun ==
    Returned =>
        /\ NoBlankParagraphOrRun
        /\ \A t \in 1..Len(content.tables) :
              \E r \in 1..Len(content.tables[t].rows) :
                  \E c \in 1..Len(content.tables[t].rows[r]) :
                      strip(content.tables[t].rows[r][c].text) # <<>>

C1_Witness ==
    /\ pc = "done"
    /\ \E k \in 1..Len(doc.paragraphs) :
          /\ NonBlank(doc.paragraphs[k])
          /\ \E m \in 1..Len(doc.paragraphs[k].runs) :
                strip(doc.paragraphs[k].runs[m].text) = <<>>
    /\ \E k \in 1..Len(doc.paragraphs) : ~NonBlank(doc.paragraphs[k])
    /\ content.headers # <<>>
    /\ \E cell \in OutputCellRecords : cell.text = <<>>

\* at least one cell in at least one row has a non-empty trimmed text
HasCellText(table) ==
    \E r \in 1..Len(table.rows) : \E c \in 1..Len(table.rows[r].cells) :
        strip(CellText(table.rows[r].cells[c])) # <<>>

\* the output table td has the rows and the cells of the table, with their texts
KeepsRowsAndCells(td, table) ==
    /\ Len(td.rows) = Len(table.rows)
    /\ \A r \in 1..Len(table.rows) :
          /\ Len(td.rows[r]) = Len(table.rows[r].cells)
          /\ \A c \in 1..Len(table.rows[r].cells) :
                td.rows[r][c].text = strip(CellText(table.rows[r].cells[c]))

\* C3: a table is in content["tables"] if and only if one of its cells has a
\* non-empty trimmed text; a table without such a cell, one without rows or
\* cells included, contributes no entry; a retained table keeps all its rows
\* and cells.
C3_TableRetainedIffCellText ==
    Returned =>
        LET kept == SelectSeq(doc.tables, HasCellText)
        IN  /\ Len(content.tables) = Len(kept)
            /\ \A k \in 1..Len(kept) : KeepsRowsAndCells(content.tables[k], kept[k])

C3_Witness ==
    /\ pc = "done"
    /\ Len(doc.tables) >= 3
    /\ Len(content.tables) = 1
    /\ \E r \in 1..Len(content.tables[1].rows) :
          \E c \in 1..Len(content.tables[1].rows[r]) :
              content.tables[1].rows[r][c].text = <<>>
    /\ \E t \in 1..Len(doc.tables) : doc.tables[t].rows = <<>>

RECURSIVE IsSubsequence(_, _)
\* out is seq with some of its elements left out
IsSubsequence(out, seq) ==
    IF out = <<>> THEN TRUE
    ELSE IF seq = <<>> THEN FALSE
    ELSE IF Head(out) = Head(seq) THEN IsSubsequence(Tail(out), Tail(seq))
    ELSE IsSubsequence(out, Tail(seq))

HeaderParagraphsOf(section) ==
    IF Truthy(section.header) THEN section.header.paragraphs ELSE <<>>

\* the header paragraphs of the document, in document order
AllHeaderParagraphs ==
    Concat([k \in 1..Len(doc.sections) |-> HeaderParagraphsOf(doc.sections[k])])

RunTexts(runs) == [k \in 1..Len(runs) |-> runs[k].text]

\* the records of the retained tables, in document order
RetainedTables == SelectSeq(doc.tables, HasCellText)

\* C7: within each category the output is in document order: the header
\* records, the body paragraph records, the list items taken group by group,
\* the tables, the rows of a table, the cells of a row and the runs of a
\* paragraph come in the order of the items of the document they stand for.
C7_DocumentOrder ==
    Returned =>
        /\ IsSubsequence(content.headers,
              [k \in 1..Len(AllHeaderParagraphs) |-> header_content(AllHeaderParagraphs[k])])
        /\ IsSubsequence(content.paragraphs, Map_para_content(doc.paragraphs))
        /\ IsSubsequence(Concat(content.lists), Map_para_content(doc.paragraphs))
        /\ \A g \in 1..Len(content.lists) : content.lists[g] # <<>>
        /\ IsSubsequence(content.tables,
              [k \in 1..Len(doc.tables) |-> table_data(doc.tables[k])])
        /\ Len(content.tables) = Len(RetainedTables)
        /\ \A t \in 1..Len(RetainedTables) :
              /\ Len(content.tables[t].rows) = Len(RetainedTables[t].rows)
              /\ \A r \in 1..Len(RetainedTables[t].rows) :
                    /\ Len(content.tables[t].rows[r]) = Len(RetainedTables[t].rows[r].cells)
                    /\ \A c \in 1..Len(RetainedTables[t].rows[r].cells) :
                          LET cell == RetainedTables[t].rows[r].cells[c]
                              rec == content.tables[t].rows[r][c]
                          IN  /\ rec.text = strip(CellText(cell))
                              /\ IsSubsequence(
                                    [k \in 1..Len(rec.paragraphs) |-> rec.paragraphs[k].text],
                                    [k \in 1..Len(cell.paragraphs) |->
                                        strip(ParagraphText(cell.paragraphs[k]))])
        /\ \A k \in 1..Len(content.paragraphs) :
              \E m \in 1..Len(doc.paragraphs) :
                  /\ content.paragraphs[k].text = strip(ParagraphText(doc.paragraphs[m]))
                  /\ IsSubsequence(RunTexts(content.paragraphs[k].runs),
                                   RunTexts(doc.paragraphs[m].runs))
        /\ \A k \in 1..Len(content.headers) :
              \E m \in 1..Len(AllHeaderParagraphs) :
                  /\ content.headers[k].text = strip(ParagraphText(AllHeaderParagraphs[m]))
                  /\ IsSubsequence(RunTexts(content.headers[k].runs),
                                   RunTexts(AllHeaderParagraphs[m].runs))

C7_Witness ==
    /\ pc = "done"
    /\ Len(content.headers) >= 2
    /\ content.headers[1] # content.headers[2]
    /\ Len(content.paragraphs) >= 2
    /\ content.paragraphs[1] # content.paragraphs[2]
    /\ Len(content.paragraphs[1].runs) >= 2
    /\ Len(content.tables) >= 1
    /\ Len(content.tables[1].rows) >= 2

(***************************************************************************)
(* process_docx_files (app.py 175-199)                                     *)
(***************************************************************************)
\* the largest number of entries of the working directory
MaxFiles == 3

NamePool ==
    {<<"a", ".", "d", "o", "c", "x">>,
     <<"b", ".", "D", "O", "C", "X">>,
     <<"c", ".", "d", "o", "c", "x">>,
     <<"d", ".", "t", "x", "t">>,
     <<"d", "o", "c", "x">>}

\* the lists os.listdir can return: names of the pool, each at most once
Listings ==
    {l \in UNION {SeqsOfLen(NamePool, n) : n \in 0..MaxFiles} :
        \A i, j \in 1..Len(l) : i # j => l[i] # l[j]}

LowerChar(c) ==
    CASE c = "D" -> "d" [] c = "O" -> "o" [] c = "C" -> "c" [] c = "X" -> "x"
      [] OTHER -> c

\* str.lower
lower(s) == [k \in 1..Len(s) |-> LowerChar(s[k])]

\* str.endswith
endswith(s, suffix) ==
    Len(s) >= Len(suffix) /\ SubSeq(s, Len(s) - Len(suffix) + 1, Len(s)) = suffix

DotDocx == <<".", "d", "o", "c", "x">>
DotJson == <<".", "j", "s", "o", "n">>

\* os.path.splitext(name)[0] of a name without directory: the name up to its
\* last dot, the whole name when that dot is preceded by dots only
SplitextRoot(name) ==
    LET dots == {k \in 1..Len(name) : name[k] = "."}
    IN  IF dots = {} THEN name
        ELSE LET last == CHOOSE k \in dots : \A m \in dots : m <= k
             IN  IF \A m \in 1..(last - 1) : name[m] = "." THEN name
                 ELSE SubSeq(name, 1, last - 1)

\* line 190
json_filename(docx_file) == SplitextRoot(docx_file) \o DotJson

\* something the function did for the file f: a line printed, the outcome of
\* the extraction
Event(e, f) == [e |-> e, f |-> f]
\* something the function did to the JSON file of f
FileEvent(e, f) == [e |-> e, f |-> f, path |-> json_filename(f)]

docx_file == docx_files[file_i + 1]

\* lines 179-183
ListDirectory ==
    /\ bpc = "idle"
    /\ \E l \in Listings : listing' = l
    /\ docx_files' = SelectSeq(listing', LAMBDA f : endswith(lower(f), DotDocx))
    /\ IF docx_files' = <<>>
       THEN /\ trace' = Append(trace, Event("print_no_files", <<>>))
            /\ bpc' = "done"
       ELSE /\ trace' = trace
            /\ bpc' = "loop"
    /\ file_i' = 0
    /\ UNCHANGED <<extractVars, fontVars, fmtVars>>

\* lines 185-187: the next file, and the progress report
ReportProgress ==
    /\ bpc = "loop"
    /\ file_i < Len(docx_files)
    /\ trace' = Append(trace, Event("print_processing", docx_file))
    /\ bpc' = "extract"
    /\ UNCHANGED <<extractVars, fontVars, fmtVars, listing, docx_files, file_i>>

\* line 188, extract_docx_content returns
ExtractReturns ==
    /\ bpc = "extract"
    /\ trace' = Append(trace, Event("extract_returned", docx_file))
    /\ bpc' = "write"
    /\ UNCHANGED <<extractVars, fontVars, fmtVars, listing, docx_files, file_i>>

\* line 188 raising and the loop going on as if it had not
ExtractRaises_continue ==
    /\ bpc = "extract"
    /\ trace' = Append(trace, Event("extract_raised", docx_file))
    /\ bpc' = "write"
    /\ UNCHANGED <<extractVars, fontVars, fmtVars, listing, docx_files, file_i>>

\* line 188, extract_docx_content raises
ExtractRaises ==
    /\ bpc = "extract"
    /\ trace' = Append(trace, Event("extract_raised", docx_file))
    /\ bpc' = "except"
    /\ UNCHANGED <<extractVars, fontVars, fmtVars, listing, docx_files, file_i>>

\* line 192, open raises
OpenRaises ==
    /\ bpc = "write"
    /\ trace' = Append(trace, FileEvent("open_raised", docx_file))
    /\ bpc' = "except"
    /\ UNCHANGED <<extractVars, fontVars, fmtVars, listing, docx_files, file_i>>

\* lines 192-193, the file is opened and json.dump raises
DumpRaises ==
    /\ bpc = "write"
    /\ trace' = trace \o <<FileEvent("opened", docx_file),
                           FileEvent("dump_raised", docx_file)>>
    /\ bpc' = "except"
    /\ UNCHANGED <<extractVars, fontVars, fmtVars, listing, docx_files, file_i>>

\* lines 192-193, the file is opened, written and closed
WriteJson ==
    /\ bpc = "write"
    /\ trace' = trace \o <<FileEvent("opened", docx_file),
                           FileEvent("dumped", docx_file)>>
    /\ bpc' = "success"
    /\ UNCHANGED <<extractVars, fontVars, fmtVars, listing, docx_files, file_i>>

\* line 195, and on to the next iteration
ReportSuccess ==
    /\ bpc = "success"
    /\ trace' = Append(trace, FileEvent("print_success", docx_file))
    /\ file_i' = file_i + 1
    /\ bpc' = "loop"
    /\ UNCHANGED <<extractVars, fontVars, fmtVars, listing, docx_files>>

\* the handler re-raising: the exception leaves process_docx_files
HandleException_reraise ==
    /\ bpc = "except"
    /\ trace' = trace \o <<Event("print_error", docx_file),
                           Event("print_error_details", docx_file)>>
    /\ bpc' = "propagated"
    /\ UNCHANGED <<extractVars, fontVars, fmtVars, listing, docx_files, file_i>>

\* lines 197-199: the handler, and on to the next iteration
HandleException ==
    /\ bpc = "except"
    /\ trace' = trace \o <<Event("print_error", docx_file),
                           Event("print_error_details", docx_file)>>
    /\ file_i' = file_i + 1
    /\ bpc' = "loop"
    /\ UNCHANGED <<extractVars, fontVars, fmtVars, listing, docx_files>>

\* line 185, the list is exhausted: the function returns
LoopEnds ==
    /\ bpc = "loop"
    /\ file_i = Len(docx_files)
    /\ bpc' = "done"
    /\ UNCHANGED <<extractVars, fontVars, fmtVars, listing, docx_files, file_i, trace>>

NextBatch ==
    \/ ListDirectory
    \/ ReportProgress
    \/ ExtractReturns
    \/ ExtractRaises
    \/ OpenRaises
    \/ DumpRaises
    \/ WriteJson
    \/ ReportSuccess
    \/ HandleException
    \/ LoopEnds

SpecBatch == Init /\ [][NextBatch]_vars

\* the interpreter runs the function to its end: a step that can be taken is taken
SpecBatchFair == SpecBatch /\ WF_vars(NextBatch)

(***************************************************************************)
(* The batch, stated over its trace                                        *)
(***************************************************************************)
Listed == bpc # "idle"

\* the files extract_docx_content was called on, in the order of the calls
Attempts ==
    LET calls == SelectSeq(trace, LAMBDA ev : ev.e \in {"extract_returned", "extract_raised"})
    IN  [k \in 1..Len(calls) |-> calls[k].f]

IsPrefix(p, seq) == Len(p) <= Len(seq) /\ p = SubSeq(seq, 1, Len(p))

NoFailureIsFatal ==
    /\ bpc # "propagated"
    /\ Listed =>
          /\ IsPrefix(Attempts, docx_files)
          /\ Len(Attempts) >= file_i
          /\ bpc = "done" => Attempts = docx_files

\* C4: no failure of the extraction or of the write of a file is fatal to the
\* batch: the matching files are attempted once each, in the order of the
\* list, those after a failing one included, no exception leaves the loop
\* and the loop ends after the last file.
C4_BatchSurvivesFailures == []NoFailureIsFatal /\ <>(bpc = "done")

C4_Witness ==
    /\ bpc = "done"
    /\ Len(docx_files) = 3
    /\ \E i, j \in 1..Len(trace) :
          /\ i < j
          /\ trace[i] = Event("extract_raised", docx_files[1])
          /\ trace[j] = FileEvent("open_raised", docx_files[2])
    /\ trace[Len(trace)] = FileEvent("print_success", docx_files[3])

\* what the function did for the file f, in order
EventsOf(f) ==
    LET evs == SelectSeq(trace, LAMBDA ev : ev.f = f)
    IN  [k \in 1..Len(evs) |-> evs[k].e]

\* the place of an event in an iteration: progress report, extraction, open,
\* dump, success or error report, error details
Rank(e) ==
    CASE e = "print_processing" -> 1
      [] e \in {"extract_returned", "extract_raised"} -> 2
      [] e \in {"opened", "open_raised"} -> 3
      [] e \in {"dumped", "dump_raised"} -> 4
      [] e \in {"print_success", "print_error"} -> 5
      [] e = "print_error_details" -> 6
      [] OTHER -> 0

Occurs(e, es) == \E k \in 1..Len(es) : es[k] = e

\* C8: for each matching file the progress report, the extraction, the write
\* and the success report happen in this order; a file the loop is done with
\* has exactly one of the success report and the error report; success is
\* reported only after the extraction returned and the JSON was written; and
\* when the extraction raises, no JSON file is opened or written.
C8_PerFileEventOrder ==
    Listed =>
        \A k \in 1..Len(docx_files) :
            LET es == EventsOf(docx_files[k])
            IN  /\ \A i, j \in 1..Len(es) : i < j => Rank(es[i]) < Rank(es[j])
                /\ es # <<>> => es[1] = "print_processing"
                /\ k <= file_i => Occurs("print_success", es) # Occurs("print_error", es)
                /\ k > file_i + 1 => es = <<>>
                /\ Occurs("print_success", es) =>
                      /\ Occurs("extract_returned", es)
                      /\ Occurs("opened", es)
                      /\ Occurs("dumped", es)
                /\ Occurs("print_error", es) =>
                      \/ Occurs("extract_raised", es)
                      \/ Occurs("open_raised", es)
                      \/ Occurs("dump_raised", es)
                /\ Occurs("extract_raised", es) =>
                      \A i \in 1..Len(es) : Rank(es[i]) \notin {3, 4}

C8_Witness ==
    /\ bpc = "done"
    /\ Len(docx_files) >= 2
    /\ EventsOf(docx_files[1]) =
          <<"print_processing", "extract_raised", "print_error", "print_error_details">>
    /\ EventsOf(docx_files[2]) =
          <<"print_processing", "extract_returned", "opened", "dumped", "print_success">>

====
